---- MODULE Spec2Model ----
(***************************************************************************)
(* A model of the question-paper extractor (src/app.py, src/utils.py,      *)
(* src/models.py).  The program is a Streamlit script: every user          *)
(* interaction (choosing a widget value, uploading a file, pressing the    *)
(* button) re-runs main() from the top.  The state is what survives a run  *)
(* (the widget values, st.session_state, the process environment) plus a   *)
(* record of what the last run did (the page it drew, the values its       *)
(* callees returned, the requests it issued, the exception that left it).  *)
(*                                                                         *)
(* A Python call is modelled by an operator that returns a record          *)
(*     [ret |-> value, exc |-> NoExc or the exception's class,             *)
(*      ui |-> the Streamlit elements it emitted, in order]                *)
(* so that try/except, and an exception that is not caught, are explicit.  *)
(***************************************************************************)
EXTENDS Integers, Sequences, FiniteSets, TLC

(***************************************************************************)
(* Bounds of the model.                                                    *)
(***************************************************************************)
\* The longest PDF (in pages) the uploads are drawn from.
MaxPages == 2

(***************************************************************************)
(* Exceptions and Streamlit elements.                                      *)
(***************************************************************************)
NoExc == "None"

\* One Streamlit element: the st.<fn> call, a label for the fixed part of
\* its text, and the value interpolated into it (or passed as data).
Elem(fn, label, arg) == [fn |-> fn, label |-> label, arg |-> arg]

\* A call that returned v, having emitted ui.
Return(v, ui) == [ret |-> v, exc |-> NoExc, ui |-> ui]

\* A call left by exception e, having emitted ui.
Raise(e, ui) == [ret |-> "<no value>", exc |-> e, ui |-> ui]

\* The elements of steps 1..n, in order.
RECURSIVE ElemsUpTo(_, _)
ElemsUpTo(steps, n) ==
    IF n = 0 THEN <<>> ELSE ElemsUpTo(steps, n - 1) \o steps[n].ui

\* Statement sequencing: the statements run in order up to the first that
\* raises, if any does.
Chain(steps) ==
    LET raising == {i \in 1..Len(steps) : steps[i].exc # NoExc}
        last    == IF raising = {} THEN Len(steps)
                   ELSE CHOOSE i \in raising : \A j \in raising : i <= j
    IN  [ret |-> steps[last].ret, exc |-> steps[last].exc, ui |-> ElemsUpTo(steps, last)]

(***************************************************************************)
(* Python values as json.loads builds them.                                *)
(***************************************************************************)
JStr(s)  == [t |-> "str", s |-> s]
JNum(n)  == [t |-> "num", n |-> n]
JBool(b) == [t |-> "bool", b |-> b]
JNull    == [t |-> "null"]
JList(l) == [t |-> "list", l |-> l]
JDict(d) == [t |-> "dict", d |-> d]

\* v[key] for a str key: KeyError on a dict without the key, TypeError on
\* anything that is not a dict (list and str indices must be integers; a
\* number, a bool and None are not subscriptable).
Subscript(v, key) ==
    IF v.t = "dict"
    THEN IF key \in DOMAIN v.d THEN Return(v.d[key], <<>>)
         ELSE Raise("KeyError", <<>>)
    ELSE Raise("TypeError", <<>>)

\* v.get(key, default) on a dict v.
Get(v, key, default) ==
    IF v.t = "dict" /\ key \in DOMAIN v.d THEN v.d[key] ELSE default

\* bool(v).
Truthy(v) ==
    CASE v.t = "null" -> FALSE
      [] v.t = "bool" -> v.b
      [] v.t = "num"  -> v.n # 0
      [] v.t = "str"  -> v.s # ""
      [] v.t = "list" -> v.l # <<>>
      [] v.t = "dict" -> DOMAIN v.d # {}

\* enumerate(v): the items the for loop visits.  A list yields its elements.
\* A str yields its characters and a dict its keys: all of them strs, on
\* which the loop body raises at its first subscript, so one item stands
\* for them.  Anything else is not iterable.
Iterate(v) ==
    CASE v.t = "list" -> Return(v.l, <<>>)
      [] v.t = "str"  -> Return(IF v.s = "" THEN <<>> ELSE <<JStr("<char>")>>, <<>>)
      [] v.t = "dict" -> Return(IF DOMAIN v.d = {} THEN <<>> ELSE <<JStr("<key>")>>, <<>>)
      [] OTHER        -> Raise("TypeError", <<>>)

(***************************************************************************)
(* Response texts.  The texts the external model may answer with are drawn *)
(* from this sample; JsonLoads gives, for each, what json.loads does with  *)
(* it.                                                                     *)
(***************************************************************************)
\* A question with every field of QuestionDetailBase.
Q_MCQ ==
    JDict([question_number |-> JStr("1"), question_type |-> JStr("MCQ"),
           question_text |-> JStr("$1+1=?$"), marks |-> JNum(2),
           is_choice_question |-> JBool(FALSE), choice_instruction |-> JStr(""),
           diagram_description |-> JStr(""), sub_parts_mapping |-> JStr("")])

Q_Subjective ==
    JDict([question_number |-> JStr("10"), question_type |-> JStr("Subjective"),
           question_text |-> JStr("Prove $a^2+b^2=c^2$"), marks |-> JNum(10),
           is_choice_question |-> JBool(TRUE),
           choice_instruction |-> JStr("Answer any one"),
           diagram_description |-> JStr("A right triangle"),
           sub_parts_mapping |-> JStr("Part A: 5 marks, Part B: 5 marks")])

\* question_type outside {MCQ, Subjective}.
Q_BadType ==
    JDict([question_number |-> JStr("1"), question_type |-> JStr("Essay"),
           question_text |-> JStr("Discuss"), marks |-> JNum(2),
           is_choice_question |-> JNull, choice_instruction |-> JNull,
           diagram_description |-> JNull, sub_parts_mapping |-> JNull])

\* No marks.
Q_NoMarks ==
    JDict([question_number |-> JStr("1"), question_type |-> JStr("MCQ"),
           question_text |-> JStr("$1+1=?$")])

\* No question_text.
Q_NoText ==
    JDict([question_number |-> JStr("1"), question_type |-> JStr("MCQ"),
           marks |-> JNum(2)])

T_NotJson    == "not json"
T_Truncated  == "{\"questions\": ["
T_NoQuestions == "{\"questions\": [], \"total_max_marks\": 0}"
T_TwoQ       == "{\"questions\": [Q_MCQ, Q_Subjective], \"total_max_marks\": 12}"
T_NoTotal    == "{\"questions\": [Q_MCQ]}"
T_NoList     == "{\"total_max_marks\": 5}"
T_BadType    == "{\"questions\": [Q_BadType], \"total_max_marks\": 2}"
T_NoMarks    == "{\"questions\": [Q_MCQ, Q_NoMarks], \"total_max_marks\": 4}"
T_NoText     == "{\"questions\": [Q_NoText], \"total_max_marks\": 2}"
T_Array      == "[1, 2]"
T_ListIsNum  == "{\"questions\": 5, \"total_max_marks\": 5}"

Texts ==
    {T_NotJson, T_Truncated, T_NoQuestions, T_TwoQ, T_NoTotal, T_NoList,
     T_BadType, T_NoMarks, T_NoText, T_Array, T_ListIsNum}

\* json.loads(text): the value, or JSONDecodeError.  (In the texts above
\* Q_... stands for the JSON object of that name.)
JsonLoads(text) ==
    CASE text = T_NoQuestions ->
            Return(JDict([questions |-> JList(<<>>), total_max_marks |-> JNum(0)]), <<>>)
      [] text = T_TwoQ ->
            Return(JDict([questions |-> JList(<<Q_MCQ, Q_Subjective>>),
                          total_max_marks |-> JNum(12)]), <<>>)
      [] text = T_NoTotal ->
            Return(JDict([questions |-> JList(<<Q_MCQ>>)]), <<>>)
      [] text = T_NoList ->
            Return(JDict([total_max_marks |-> JNum(5)]), <<>>)
      [] text = T_BadType ->
            Return(JDict([questions |-> JList(<<Q_BadType>>), total_max_marks |-> JNum(2)]), <<>>)
      [] text = T_NoMarks ->
            Return(JDict([questions |-> JList(<<Q_MCQ, Q_NoMarks>>),
                          total_max_marks |-> JNum(4)]), <<>>)
      [] text = T_NoText ->
            Return(JDict([questions |-> JList(<<Q_NoText>>), total_max_marks |-> JNum(2)]), <<>>)
      [] text = T_Array ->
            Return(JList(<<JNum(1), JNum(2)>>), <<>>)
      [] text = T_ListIsNum ->
            Return(JDict([questions |-> JNum(5), total_max_marks |-> JNum(5)]), <<>>)
      [] OTHER -> Raise("JSONDecodeError", <<>>)

(***************************************************************************)
(* src/models.py: the declared shape of a response.                        *)
(***************************************************************************)
\* A field declared Optional[T]: absent, None, or a T.
OptionalField(v, key, type) ==
    key \in DOMAIN v.d => v.d[key].t \in {"null", type}

\* A field declared T: present and a T.
RequiredField(v, key, type) ==
    key \in DOMAIN v.d /\ v.d[key].t = type

\* v is a QuestionDetailBase.
QuestionDetailBase(v) ==
    /\ v.t = "dict"
    /\ RequiredField(v, "question_number", "str")
    /\ RequiredField(v, "question_type", "str")
    /\ v.d["question_type"].s \in {"MCQ", "Subjective"}
    /\ RequiredField(v, "question_text", "str")
    /\ RequiredField(v, "marks", "num")
    /\ OptionalField(v, "is_choice_question", "bool")
    /\ OptionalField(v, "choice_instruction", "str")
    /\ OptionalField(v, "diagram_description", "str")
    /\ OptionalField(v, "sub_parts_mapping", "str")

\* v is a QuestionPaperBase.
QuestionPaperBase(v) ==
    /\ v.t = "dict"
    /\ RequiredField(v, "questions", "list")
    /\ \A i \in 1..Len(v.d["questions"].l) : QuestionDetailBase(v.d["questions"].l[i])
    /\ RequiredField(v, "total_max_marks", "num")

(***************************************************************************)
(* src/app.py: display_question_paper.                                     *)
(***************************************************************************)
\* st.markdown(f"#### Question {question['question_number']}") and the
\* like: the subscript may raise before the element is emitted.
MarkdownOf(label, v, key) ==
    LET x == Subscript(v, key)
    IN  IF x.exc # NoExc THEN x
        ELSE Return("None", <<Elem("markdown", label, x.ret)>>)

\* Lines 129-130: the badge's colour, then the type itself.
TypeBadge(q) ==
    LET x == Subscript(q, "question_type")
    IN  IF x.exc # NoExc THEN x
        ELSE LET type_color == IF x.ret.t = "str" /\ x.ret.s = "MCQ"
                               THEN "blue" ELSE "green"
             IN  Return("None", <<Elem("markdown", type_color, x.ret)>>)

\* Lines 133-134.
ChoiceIndicator(q) ==
    IF Truthy(Get(q, "is_choice_question", JBool(FALSE)))
    THEN Return("None", <<Elem("info", "Choice Question", Get(q, "choice_instruction", JStr("")))>>)
    ELSE Return("None", <<>>)

\* Lines 138-144: the text, and when that raised, st.write of the same
\* subscript.
QuestionText(q) ==
    LET x == Subscript(q, "question_text")
    IN  IF x.exc = NoExc
        THEN Return("None", <<Elem("markdown", "question_text", x.ret)>>)
        ELSE LET y == Subscript(q, "question_text")
             IN  IF y.exc # NoExc THEN y
                 ELSE Return("None", <<Elem("write", "question_text", y.ret)>>)

\* Lines 147-152: an optional field, shown when truthy.
OptionalLine(q, label, key) ==
    IF Truthy(Get(q, key, JNull))
    THEN Return("None", <<Elem("markdown", label, Get(q, key, JNull))>>)
    ELSE Return("None", <<>>)

\* Lines 119-154: the body of the loop, for one question.
DisplayQuestion(q) ==
    Chain(<<MarkdownOf("Question", q, "question_number"),
            MarkdownOf("Marks", q, "marks"),
            TypeBadge(q),
            ChoiceIndicator(q),
            Return("None", <<Elem("markdown", "**Question:**", JNull)>>),
            QuestionText(q),
            OptionalLine(q, "Diagram", "diagram_description"),
            OptionalLine(q, "Sub-parts", "sub_parts_mapping"),
            Return("None", <<Elem("markdown", "---", JNull)>>)>>)

\* Lines 118-154: the loop over the questions, left at the first exception.
DisplayQuestions(qs) ==
    Chain(<<Return("None", <<>>)>> \o [i \in 1..Len(qs) |-> DisplayQuestion(qs[i])])

\* Lines 118: for ... in enumerate(data['questions'], 1).
QuestionLoop(data) ==
    LET x == Subscript(data, "questions")
    IN  IF x.exc # NoExc THEN x
        ELSE LET it == Iterate(x.ret)
             IN  IF it.exc # NoExc THEN it ELSE DisplayQuestions(it.ret)

\* DownloadButton offering a re-serialisation of the parsed data in place of
\* the text given.
DownloadButton_Reserialized(question_paper_data) ==
    Return("None", <<Elem("download_button", "extracted_questions.json", "json.dumps(data)")>>)

\* Lines 157-162.
DownloadButton(question_paper_data) ==
    Return("None", <<Elem("download_button", "extracted_questions.json", question_paper_data)>>)

\* Lines 113-162: the try block once json.loads has returned data.
DisplayData(question_paper_data, data) ==
    Chain(<<Return("None", <<Elem("markdown", "---", JNull)>>),
            MarkdownOf("Total Maximum Marks", data, "total_max_marks"),
            Return("None", <<Elem("markdown", "---", JNull)>>),
            QuestionLoop(data),
            DownloadButton(question_paper_data)>>)

\* Line 110 and what follows it in the try block.
DisplayParsed(question_paper_data, parsed) ==
    IF parsed.exc # NoExc THEN parsed
    ELSE DisplayData(question_paper_data, parsed.ret)

\* Lines 110-162: the try block.
DisplayBody(question_paper_data) ==
    DisplayParsed(question_paper_data, JsonLoads(question_paper_data))

\* ParseErrorHandler showing the exception's text where the raw response
\* belongs.
ParseErrorHandler_ShowsError(question_paper_data) ==
    <<Elem("error", "Error parsing response", "JSONDecodeError"),
      Elem("text", "Raw response:", ""),
      Elem("code", "raw", "JSONDecodeError")>>

\* Lines 164-167: the handler of json.JSONDecodeError.
ParseErrorHandler(question_paper_data) ==
    <<Elem("error", "Error parsing response", "JSONDecodeError"),
      Elem("text", "Raw response:", ""),
      Elem("code", "raw", question_paper_data)>>

\* The exceptions the except clause of line 164 catches.
DisplayCaught(e) == e = "JSONDecodeError"

\* Lines 109 and 164: the try statement around body.
DisplayExcept(question_paper_data, body) ==
    IF body.exc # NoExc /\ DisplayCaught(body.exc)
    THEN Return("None", body.ui \o ParseErrorHandler(question_paper_data))
    ELSE body

display_question_paper(question_paper_data) ==
    DisplayExcept(question_paper_data, DisplayBody(question_paper_data))

(***************************************************************************)
(* Uploads.  The bytes of an upload are modelled by what the decoders make *)
(* of them: a PDF that pymupdf opens, with one flag per page telling       *)
(* whether the page renders; an image that PIL opens, with its colour mode *)
(* and whether convert('RGB') succeeds on it; or bytes neither decoder     *)
(* accepts.  The declared MIME type is independent of the bytes.           *)
(***************************************************************************)
PdfBytes(pages) == [kind |-> "pdf", pages |-> pages, mode |-> "", convertible |-> FALSE]
ImageBytes(mode, convertible) ==
    [kind |-> "image", pages |-> <<>>, mode |-> mode, convertible |-> convertible]
GarbageBytes == [kind |-> "garbage", pages |-> <<>>, mode |-> "", convertible |-> FALSE]

\* The page flags of an n-page PDF whose page bad is the first that fails to
\* render (bad = 0: every page renders).  The pages after a failing page are
\* never rendered, so nothing depends on their flags.
PageFlags(n, bad) == [i \in 1..n |-> i # bad]

PdfContents ==
    UNION {{PdfBytes(PageFlags(n, bad)) : bad \in 0..n} : n \in 0..MaxPages}

ImageContents ==
    {ImageBytes("RGB", TRUE), ImageBytes("L", TRUE), ImageBytes("RGBA", TRUE),
     ImageBytes("L", FALSE)}

Contents == PdfContents \cup ImageContents \cup {GarbageBytes}

MimeTypes ==
    {"application/pdf", "image/png", "image/jpeg", "image/jpg", "application/zip",
     "text/plain"}

\* A Streamlit UploadedFile: its declared type and its bytes.
UploadedFiles == [type : MimeTypes, content : Contents]

\* uploaded_file is None.
NoFile == [none |-> TRUE]

(***************************************************************************)
(* src/utils.py.  The results carry, besides ret / exc / ui, the decoder   *)
(* calls made (lib).                                                       *)
(***************************************************************************)
Result(v, e, ui, lib) == [ret |-> v, exc |-> e, ui |-> ui, lib |-> lib]

\* pymupdf.open(stream=pdf_bytes, filetype="pdf"): the document's pages.
PdfOpen(pdf_bytes) ==
    IF pdf_bytes.kind = "pdf"
    THEN Result(pdf_bytes.pages, NoExc, <<>>, <<"pymupdf.open">>)
    ELSE Result(<<>>, "FileDataError", <<>>, <<"pymupdf.open">>)

\* Lines 25-26: page.get_pixmap and Image.frombytes("RGB", ...) for page
\* number i of doc.
RenderPage(doc, i, dpi) ==
    IF doc[i]
    THEN Result([src |-> "pdf", page |-> i, mode |-> "RGB", dpi |-> dpi,
                 converted |-> FALSE], NoExc, <<>>, <<>>)
    ELSE Result(<<>>, "RuntimeError", <<>>, <<>>)

\* Lines 24-27: the loop over the pages from page i on, images being the
\* list so far.
RECURSIVE RenderPages(_, _, _, _)
RenderPages(doc, i, dpi, images) ==
    IF i > Len(doc) THEN Result(images, NoExc, <<>>, <<>>)
    ELSE LET img == RenderPage(doc, i, dpi)
         IN  IF img.exc # NoExc THEN Result(images, img.exc, <<>>, <<>>)
             ELSE RenderPages(doc, i + 1, dpi, Append(images, img.ret))

\* Lines 29-30, rendered being what the loop left.
PagesRendered(doc, rendered) ==
    Result(rendered.ret, rendered.exc, <<>>, doc.lib)

\* ConvertOpened with the loop starting at the second page.
ConvertOpened_SkipsFirst(doc, dpi) ==
    IF doc.exc # NoExc THEN doc
    ELSE PagesRendered(doc, RenderPages(doc.ret, 2, dpi, <<>>))

\* Lines 21-30, doc being what pymupdf.open returned.
ConvertOpened(doc, dpi) ==
    IF doc.exc # NoExc THEN doc
    ELSE PagesRendered(doc, RenderPages(doc.ret, 1, dpi, <<>>))

\* Lines 19-30: the try block.
ConvertBody(pdf_bytes, dpi) ==
    ConvertOpened(PdfOpen(pdf_bytes), dpi)

\* ConvertHandler returning the pages rendered before the failure.
ConvertHandler_Partial(body) ==
    Result(body.ret, NoExc,
           <<Elem("error", "Error converting PDF to images", body.exc)>>, body.lib)

\* Lines 31-33: the handler of Exception.
ConvertHandler(body) ==
    Result(<<>>, NoExc,
           <<Elem("error", "Error converting PDF to images", body.exc)>>, body.lib)

\* Lines 18 and 31: the try statement around body.
ConvertExcept(body) ==
    IF body.exc # NoExc THEN ConvertHandler(body) ELSE body

convert_pdf_to_images(pdf_bytes, dpi) ==
    ConvertExcept(ConvertBody(pdf_bytes, dpi))

\* Image.open(io.BytesIO(file_bytes)).
ImageOpen(file_bytes) ==
    IF file_bytes.kind = "image"
    THEN Result([src |-> "upload", page |-> 0, mode |-> file_bytes.mode, dpi |-> 0,
                 converted |-> FALSE], NoExc, <<>>, <<"Image.open">>)
    ELSE Result(<<>>, "UnidentifiedImageError", <<>>, <<"Image.open">>)

\* image.convert('RGB').
ImageConvert(image, file_bytes) ==
    IF file_bytes.convertible
    THEN Result([image EXCEPT !.mode = "RGB", !.converted = TRUE], NoExc, <<>>, <<>>)
    ELSE Result(<<>>, "OSError", <<>>, <<>>)

\* Lines 56-57, images being what convert_pdf_to_images returned.
PdfConverted(images) ==
    IF images.exc # NoExc THEN images
    ELSE Result(images.ret, NoExc,
                images.ui \o (IF images.ret # <<>>
                              THEN <<Elem("success", "Converted PDF to page(s)",
                                          Len(images.ret))>>
                              ELSE <<>>),
                images.lib)

\* Lines 51-57.
PdfBranch(file_bytes) ==
    PdfConverted(convert_pdf_to_images(file_bytes, 200))

\* Lines 67-68.
ImageLoaded(image, lib) ==
    IF image.exc # NoExc THEN Result(<<>>, image.exc, <<>>, lib)
    ELSE Result(<<image.ret>>, NoExc,
                <<Elem("success", "Image loaded successfully", "")>>, lib)

\* ImageOpened without the conversion.
ImageOpened_NoConvert(file_bytes, opened) ==
    IF opened.exc # NoExc THEN opened
    ELSE ImageLoaded(opened, opened.lib)

\* Lines 63-68, opened being what Image.open returned.
ImageOpened(file_bytes, opened) ==
    IF opened.exc # NoExc THEN opened
    ELSE ImageLoaded(IF opened.ret.mode # "RGB"
                     THEN ImageConvert(opened.ret, file_bytes) ELSE opened,
                     opened.lib)

\* Lines 59-68.
ImageBranch(file_bytes) ==
    ImageOpened(file_bytes, ImageOpen(file_bytes))

\* UnsupportedBranch reporting without the type.
UnsupportedBranch_NoType(file_type) ==
    Result(<<>>, NoExc, <<Elem("error", "Unsupported file type", "")>>, <<>>)

\* Lines 70-71.
UnsupportedBranch(file_type) ==
    Result(<<>>, NoExc, <<Elem("error", "Unsupported file type", file_type)>>, <<>>)

\* Line 59: the types taken as images.
ImageTypes == {"image/png", "image/jpeg", "image/jpg"}

\* Lines 48-73: the try block.
ProcessBody(uploaded_file) ==
    LET file_bytes == uploaded_file.content
        file_type  == uploaded_file.type
    IN  IF file_type = "application/pdf" THEN PdfBranch(file_bytes)
        ELSE IF file_type \in ImageTypes THEN ImageBranch(file_bytes)
        ELSE UnsupportedBranch(file_type)

\* Lines 75-77: the handler of Exception.
ProcessHandler(body) ==
    Result(<<>>, NoExc, body.ui \o <<Elem("error", "Error processing file", body.exc)>>,
           body.lib)

\* Lines 47 and 75: the try statement around body.
ProcessExcept(body) ==
    IF body.exc # NoExc THEN ProcessHandler(body) ELSE body

process_uploaded_file(uploaded_file) ==
    ProcessExcept(ProcessBody(uploaded_file))

(***************************************************************************)
(* Strings the code searches are sequences of characters.                  *)
(***************************************************************************)
Gemini3Flash ==
    <<"g","e","m","i","n","i","-","3","-","f","l","a","s","h","-",
      "p","r","e","v","i","e","w">>
Gemini25Flash ==
    <<"g","e","m","i","n","i","-","2",".","5","-","f","l","a","s","h">>

\* Lines 180-183: the options of the model selectbox.
ModelNames == {Gemini3Flash, Gemini25Flash}

\* Lines 194, 202: the options of the other two selectboxes.
Levels == {"low", "medium", "high"}

\* sub in s.
Contains(sub, s) ==
    \E i \in 1..(Len(s) - Len(sub) + 1) : SubSeq(s, i, i + Len(sub) - 1) = sub

\* s.lower(), on the letters that occur.
Lower(s) ==
    [i \in 1..Len(s) |->
        CASE s[i] = "G" -> "g" [] s[i] = "F" -> "f" [] s[i] = "P" -> "p" [] OTHER -> s[i]]

(***************************************************************************)
(* src/app.py: extract_questions_from_images.                              *)
(***************************************************************************)
\* src/prompts.py: the text get_system_prompt returns.
get_system_prompt == "<role> ... Extract every detail from the question paper."

\* Lines 53-55.
InstructionText ==
    "Extract all questions from this question paper following the schema and instructions provided."

\* Lines 40-42: img.save(..., format='PNG') and getvalue().
PngBytes(img) == [format |-> "PNG", image |-> img]

\* ContentParts with the instruction ahead of the images.
ContentParts_TextFirst(images) ==
    <<[kind |-> "text", mime_type |-> "", data |-> InstructionText]>>
    \o [i \in 1..Len(images) |->
        [kind |-> "bytes", mime_type |-> "image/png", data |-> PngBytes(images[i])]]

\* Lines 37-56.
ContentParts(images) ==
    [i \in 1..Len(images) |->
        [kind |-> "bytes", mime_type |-> "image/png", data |-> PngBytes(images[i])]]
    \o <<[kind |-> "text", mime_type |-> "", data |-> InstructionText]>>

\* Lines 67-71 with the .get of lines 81 and 93.
MediaResolutionMap(media_resolution) ==
    CASE media_resolution = "low"  -> "MEDIA_RESOLUTION_LOW"
      [] media_resolution = "high" -> "MEDIA_RESOLUTION_HIGH"
      [] OTHER                     -> "MEDIA_RESOLUTION_MEDIUM"

\* IsGemini25 testing for another version string.
IsGemini25_WrongVersion(model_name) ==
    \/ Contains(<<"2", ".", "0">>, model_name)
    \/ Contains(<<"g","e","m","i","n","i","-","2",".","0">>, Lower(model_name))

\* Line 75.
IsGemini25(model_name) ==
    \/ Contains(<<"2", ".", "5">>, model_name)
    \/ Contains(<<"g","e","m","i","n","i","-","2",".","5">>, Lower(model_name))

\* Lines 76-82.
ConfigWithoutThinking(media_resolution) ==
    [temperature |-> 1,
     response_mime_type |-> "application/json",
     response_schema |-> "QuestionPaperBase",
     system_instruction |-> <<get_system_prompt>>,
     media_resolution |-> MediaResolutionMap(media_resolution)]

\* Lines 85-94.
ConfigWithThinking(thinking_level, media_resolution) ==
    [temperature |-> 1,
     response_mime_type |-> "application/json",
     response_schema |-> "QuestionPaperBase",
     system_instruction |-> <<get_system_prompt>>,
     thinking_config |-> [thinking_level |-> thinking_level],
     media_resolution |-> MediaResolutionMap(media_resolution)]

\* Lines 75-94.
GenerateContentConfig(model_name, thinking_level, media_resolution) ==
    IF IsGemini25(model_name)
    THEN ConfigWithoutThinking(media_resolution)
    ELSE ConfigWithThinking(thinking_level, media_resolution)

\* What the service does with one request: it answers with a text or the
\* call raises.
ServiceErrors == {"DeadlineExceeded", "Unauthenticated", "ResourceExhausted"}
Answer(text) == [kind |-> "text", text |-> text, exc |-> NoExc]
Failure(e)   == [kind |-> "raise", text |-> "", exc |-> e]
Outcomes == {Answer(t) : t \in Texts} \cup {Failure(e) : e \in ServiceErrors}

\* Lines 98-102: the requests the call issues.
GenerateContentCalls(model_name, contents, config) ==
    <<[model |-> model_name, contents |-> contents, config |-> config]>>

\* The result carries the requests issued (requests).
extract_questions_from_images(images, model_name, thinking_level, media_resolution, outcome) ==
    LET contents == <<[role |-> "user", parts |-> ContentParts(images)]>>
        config   == GenerateContentConfig(model_name, thinking_level, media_resolution)
        requests == GenerateContentCalls(model_name, contents, config)
    IN  [ret |-> outcome.text, exc |-> outcome.exc, ui |-> <<>>, requests |-> requests]

(***************************************************************************)
(* src/app.py: main.                                                       *)
(***************************************************************************)
VARIABLES
    model_name,        \* the model selectbox
    thinking_widget,   \* the thinking-level selectbox
    media_resolution,  \* the media-resolution selectbox
    uploaded_file,     \* the file uploader: NoFile or an UploadedFiles
    session_state,     \* st.session_state
    api_key,           \* whether GEMINI_API_KEY is set in the environment
    page,              \* the elements the last run emitted, in order
    puf,               \* what process_uploaded_file returned in the last run
    ext,               \* what extract_questions_from_images did in the last run
    dqp,               \* what display_question_paper did in the last run
    shown,             \* whether the last run rendered the Extract button
    clicked,           \* whether the last run was started by the button
    stopped            \* whether the last run ended in st.stop()

vars ==
    <<model_name, thinking_widget, media_resolution, uploaded_file, session_state,
      api_key, page, puf, ext, dqp, shown, clicked, stopped>>

\* A function the run did not call.
NotCalled == [called |-> FALSE]

\* A local name that was never assigned.
Unbound == "<unbound>"

\* st.session_state without a key.
EmptySessionState == <<>>

\* Line 189.
SidebarIs25(mn) == Contains(<<"2", ".", "5">>, mn)

\* Lines 189-197: the local thinking_level after the sidebar.
ThinkingLevelLocal(mn, widget) ==
    IF SidebarIs25(mn) THEN Unbound ELSE widget

\* Lines 189-190.
SidebarElems(mn) ==
    IF SidebarIs25(mn)
    THEN <<Elem("info", "Gemini 2.5 Flash doesn't use thinking configuration", "")>>
    ELSE <<>>

\* Lines 251-255.
Preview(images) == [i \in 1..Len(images) |-> Elem("image", "Page", i)]

\* Line 264.
MainIs3Flash(mn) == Contains(<<"3", "-", "f", "l", "a", "s", "h">>, mn)

\* Lines 263-265: reading an unbound local raises (Unbound)NameError.
CurrentThinkingLevel(mn, thinking_level) ==
    IF MainIs3Flash(mn)
    THEN IF thinking_level = Unbound THEN Raise("NameError", <<>>)
         ELSE Return(thinking_level, <<>>)
    ELSE Return("medium", <<>>)

\* What the button's block leaves: the session state, the elements, the
\* call of extract_questions_from_images, whether st.stop() ended the run.
ClickResult(ss, ui, e, stop) == [ss |-> ss, ui |-> ui, ext |-> e, stopped |-> stop]

\* ExtractHandler dropping the stored result.
ExtractHandler_Clears(ss, e, exc) ==
    ClickResult(EmptySessionState,
                <<Elem("error", "Error during extraction", exc),
                  Elem("code", "traceback", exc)>>,
                e, FALSE)

\* Lines 280-283: the handler of Exception.
ExtractHandler(ss, e, exc) ==
    ClickResult(ss,
                <<Elem("error", "Error during extraction", exc),
                  Elem("code", "traceback", exc)>>,
                e, FALSE)

\* StoreResult keeping an earlier result where there is one.
StoreResult_KeepsOld(ss, e) ==
    ClickResult(IF "extracted_data" \in DOMAIN ss THEN ss ELSE [extracted_data |-> e.ret],
                <<Elem("success", "Questions extracted successfully!", "")>>,
                e, FALSE)

\* Lines 277-278.
StoreResult(ss, e) ==
    ClickResult([extracted_data |-> e.ret],
                <<Elem("success", "Questions extracted successfully!", "")>>,
                e, FALSE)

\* Lines 268-283, result being what extract_questions_from_images did.
Extracted(ss, result) ==
    IF result.exc # NoExc THEN ExtractHandler(ss, result, result.exc)
    ELSE StoreResult(ss, result)

\* Lines 263-283, current_thinking_level being what lines 263-265 left.
WithThinkingLevel(images, mn, current_thinking_level, mr, outcome, ss) ==
    IF current_thinking_level.exc # NoExc
    THEN ExtractHandler(ss, NotCalled, current_thinking_level.exc)
    ELSE Extracted(ss, extract_questions_from_images(
                           images, mn, current_thinking_level.ret, mr, outcome))

\* Lines 261-283: the try statement.
TryExtract(images, mn, thinking_level, mr, outcome, ss) ==
    WithThinkingLevel(images, mn, CurrentThinkingLevel(mn, thinking_level), mr, outcome, ss)

\* Lines 26-31 and 258-283: the button's block.  Without the key
\* get_gemini_client reports it and st.stop() ends the run.
ButtonBlock(images, mn, thinking_level, mr, outcome, ss, key) ==
    IF ~key
    THEN ClickResult(ss, <<Elem("error", "Please set GEMINI_API_KEY in your .env file", "")>>,
                     NotCalled, TRUE)
    ELSE TryExtract(images, mn, thinking_level, mr, outcome, ss)

\* Line 287, then what display_question_paper did.
Displayed(d) ==
    [d EXCEPT !.ui = <<Elem("markdown", "## Extracted Questions", JNull)>> \o d.ui]

\* display_question_paper on each text of the sample (what it does depends
\* on the text alone).
DisplayOfText == [text \in Texts |-> display_question_paper(text)]

\* Lines 286-288.
DisplayResults(ss) ==
    IF "extracted_data" \in DOMAIN ss
    THEN Displayed(DisplayOfText[ss.extracted_data])
    ELSE NotCalled

\* The end of a run: what it leaves.
RunRecord(mn, file, fileui, preview, button_shown, pressed, click, displayed) ==
    [session_state |-> click.ss,
     page    |-> SidebarElems(mn) \o fileui \o preview \o click.ui
                 \o (IF displayed = NotCalled THEN <<>> ELSE displayed.ui),
     puf     |-> file,
     ext     |-> click.ext,
     dqp     |-> displayed,
     shown   |-> button_shown,
     clicked |-> pressed,
     stopped |-> click.stopped]

\* Lines 285-288, click being what the button's block left.
AfterButton(mn, file, fileui, preview, button_shown, pressed, click) ==
    RunRecord(mn, file, fileui, preview, button_shown, pressed, click,
              IF click.stopped THEN NotCalled ELSE DisplayResults(click.ss))

\* AfterUpload without the test of line 249: the button is rendered and its
\* block entered whatever process_uploaded_file returned.
AfterUpload_NoImagesTest(mn, thinking_level, mr, file, images, fileui, button, outcome, ss, key) ==
    AfterButton(mn, file, fileui,
                Preview(images),
                TRUE,
                button,
                IF button
                THEN ButtonBlock(images, mn, thinking_level, mr, outcome, ss, key)
                ELSE ClickResult(ss, <<>>, NotCalled, FALSE))

\* Lines 249-288, images being what process_uploaded_file returned (empty
\* without a file).
AfterUpload(mn, thinking_level, mr, file, images, fileui, button, outcome, ss, key) ==
    AfterButton(mn, file, fileui,
                IF images # <<>> THEN Preview(images) ELSE <<>>,
                images # <<>>,
                images # <<>> /\ button,
                IF images # <<>> /\ button
                THEN ButtonBlock(images, mn, thinking_level, mr, outcome, ss, key)
                ELSE ClickResult(ss, <<>>, NotCalled, FALSE))

\* Lines 245-288, file being what process_uploaded_file did.
WithFile(mn, thinking_level, mr, file, button, outcome, ss, key) ==
    AfterUpload(mn, thinking_level, mr, file,
                IF file = NotCalled THEN <<>> ELSE file.ret,
                IF file = NotCalled THEN <<>> ELSE file.ui,
                button, outcome, ss, key)

\* process_uploaded_file on each upload of the sample (what it does depends
\* on the upload alone: every run gets the file's bytes from the start).
ImagesOfFile == [f \in UploadedFiles |-> process_uploaded_file(f)]

\* One run of main: the widget values, whether the button was pressed, what
\* the service does with a request, and the session state the run starts
\* with.
main(mn, widget, mr, uf, button, outcome, ss, key) ==
    WithFile(mn, ThinkingLevelLocal(mn, widget), mr,
             IF uf # NoFile THEN ImagesOfFile[uf] ELSE NotCalled,
             button, outcome, ss, key)

(***************************************************************************)
(* The script runs: once when the session starts, and again on every       *)
(* interaction, with the widget values the interaction leaves.             *)
(***************************************************************************)
\* The state a run leaves.
Leaves(r) ==
    /\ session_state' = r.session_state
    /\ page' = r.page
    /\ puf' = r.puf
    /\ ext' = r.ext
    /\ dqp' = r.dqp
    /\ shown' = r.shown
    /\ clicked' = r.clicked
    /\ stopped' = r.stopped

Rerun(mn, widget, mr, uf, button, outcome) ==
    /\ model_name' = mn
    /\ thinking_widget' = widget
    /\ media_resolution' = mr
    /\ uploaded_file' = uf
    /\ Leaves(main(mn, widget, mr, uf, button, outcome, session_state, api_key))
    /\ UNCHANGED api_key

\* The outcome passed to a run that has no button press.
NoRequest == Failure("<no request>")

\* The state the first run of a session leaves.
FirstRun(r) ==
    /\ session_state = r.session_state
    /\ page = r.page
    /\ puf = r.puf
    /\ ext = r.ext
    /\ dqp = r.dqp
    /\ shown = r.shown
    /\ clicked = r.clicked
    /\ stopped = r.stopped

\* Lines 178-186 (index=0), 192-197 (index=1), 200-205 (index=1), 239-243:
\* the first run of a session.
Init ==
    /\ api_key \in BOOLEAN
    /\ model_name = Gemini3Flash
    /\ thinking_widget = "medium"
    /\ media_resolution = "medium"
    /\ uploaded_file = NoFile
    /\ FirstRun(main(Gemini3Flash, "medium", "medium", NoFile, FALSE, NoRequest,
                     EmptySessionState, api_key))

\* The user picks the other model.  A selectbox that a run does not render
\* loses its value: the thinking level is back at its default (index=1)
\* when it is rendered again.
SelectModel ==
    \E m \in ModelNames \ {model_name} :
        Rerun(m, IF SidebarIs25(m) THEN "medium" ELSE thinking_widget,
              media_resolution, uploaded_file, FALSE, NoRequest)

\* The user picks a thinking level; the selectbox is there only when line
\* 192 rendered it.
SelectThinkingLevel ==
    /\ ~SidebarIs25(model_name)
    /\ \E l \in Levels \ {thinking_widget} :
        Rerun(model_name, l, media_resolution, uploaded_file, FALSE, NoRequest)

SelectMediaResolution ==
    \E r \in Levels \ {media_resolution} :
        Rerun(model_name, thinking_widget, r, uploaded_file, FALSE, NoRequest)

UploadFile ==
    \E f \in UploadedFiles \ {uploaded_file} :
        Rerun(model_name, thinking_widget, media_resolution, f, FALSE, NoRequest)

RemoveFile ==
    /\ uploaded_file # NoFile
    /\ Rerun(model_name, thinking_widget, media_resolution, NoFile, FALSE, NoRequest)

\* The user presses the button the last run rendered; the service answers
\* the request, if one is issued, with any of the outcomes.
ClickExtract ==
    /\ shown
    /\ \E o \in Outcomes :
        Rerun(model_name, thinking_widget, media_resolution, uploaded_file, TRUE, o)

Next ==
    \/ SelectModel
    \/ SelectThinkingLevel
    \/ SelectMediaResolution
    \/ UploadFile
    \/ RemoveFile
    \/ ClickExtract

Spec == Init /\ [][Next]_vars

(***************************************************************************)
(* Properties.                                                             *)
(***************************************************************************)
\* ui holds an st.<fn> element with this label.
HasElem(ui, fn, label) ==
    \E i \in 1..Len(ui) : ui[i].fn = fn /\ ui[i].label = label

\* ui holds an st.<fn> element with this label and this argument.
HasElemArg(ui, fn, label, arg) ==
    \E i \in 1..Len(ui) : ui[i].fn = fn /\ ui[i].label = label /\ ui[i].arg = arg

\* ui shows something of a paper: the total-marks line or a part of a
\* question.
RendersPaper(ui) ==
    \E i \in 1..Len(ui) :
        \/ ui[i].fn = "markdown" /\ ui[i].label \in
               {"Total Maximum Marks", "Question", "Marks", "blue", "green",
                "**Question:**", "question_text", "Diagram", "Sub-parts"}
        \/ ui[i].fn \in {"info", "write"}

\* The last run called display_question_paper, on this text.
Displaying(text) ==
    /\ dqp # NotCalled
    /\ session_state.extracted_data = text

\* The parse-error outcome of display_question_paper on text: the error is
\* reported, the raw text is shown as given, nothing of a paper is
\* rendered, no download is offered and no exception leaves the function.
ParseErrorOutcome(text) ==
    /\ dqp.exc = NoExc
    /\ HasElem(dqp.ui, "error", "Error parsing response")
    /\ HasElemArg(dqp.ui, "code", "raw", text)
    /\ \A i \in 1..Len(dqp.ui) : dqp.ui[i].fn = "code" => dqp.ui[i].arg = text
    /\ ~RendersPaper(dqp.ui)
    /\ ~\E i \in 1..Len(dqp.ui) : dqp.ui[i].fn = "download_button"

\* C1: a response text that is valid JSON but is no QuestionPaperBase ends
\* display_question_paper in the parse-error outcome: the error is
\* reported, no exception escapes, nothing of the paper is rendered.
C1_SchemaMismatchIsParseError ==
    \A text \in Texts :
        (/\ Displaying(text)
         /\ JsonLoads(text).exc = NoExc
         /\ ~QuestionPaperBase(JsonLoads(text).ret))
        => (/\ dqp.exc = NoExc
            /\ HasElem(dqp.ui, "error", "Error parsing response")
            /\ ~RendersPaper(dqp.ui))

\* C2: a response text that is not valid JSON ends display_question_paper
\* in the parse-error outcome, the raw text shown being the text given.
C2_InvalidJsonIsParseError ==
    \A text \in Texts :
        (Displaying(text) /\ JsonLoads(text).exc = "JSONDecodeError")
        => ParseErrorOutcome(text)

C2_Witness ==
    /\ Displaying(T_NotJson)
    /\ HasElemArg(dqp.ui, "code", "raw", T_NotJson)

\* The last run called process_uploaded_file, on an upload of this type.
Processed(types) ==
    /\ uploaded_file # NoFile
    /\ puf # NotCalled
    /\ uploaded_file.type \in types

\* process_uploaded_file rejected the upload: the unsupported-format error
\* carries the declared type, nothing is returned, no decoder was called,
\* nothing was raised.
Rejected ==
    /\ puf.exc = NoExc
    /\ puf.ret = <<>>
    /\ puf.lib = <<>>
    /\ HasElemArg(puf.ui, "error", "Unsupported file type", uploaded_file.type)

\* C3, as claimed: every declared type outside {application/pdf, image/png,
\* image/jpeg} is rejected.
C3_OutsideThreeTypesRejected ==
    Processed(MimeTypes \ {"application/pdf", "image/png", "image/jpeg"}) => Rejected

\* C3, amended: every declared type outside {application/pdf, image/png,
\* image/jpeg, image/jpg} is rejected: the unsupported-format error carries
\* that exact type, the result is empty, the bytes are not decoded and
\* nothing is raised.
C3_OutsideFourTypesRejected ==
    Processed(MimeTypes \ {"application/pdf", "image/png", "image/jpeg", "image/jpg"})
    => Rejected

C3_Witness ==
    /\ Processed({"application/zip"})
    /\ uploaded_file.content.kind = "image"
    /\ Rejected

\* The bytes do not decode as a PDF: pymupdf.open raises or a page fails to
\* render.
PdfUndecodable(file_bytes) ==
    \/ file_bytes.kind # "pdf"
    \/ \E i \in 1..Len(file_bytes.pages) : ~file_bytes.pages[i]

\* The bytes do not decode as an image: Image.open raises or
\* convert('RGB') does.
ImageUndecodable(file_bytes) ==
    \/ file_bytes.kind # "image"
    \/ file_bytes.mode # "RGB" /\ ~file_bytes.convertible

\* C4: bytes that do not decode as their declared supported type make
\* process_uploaded_file report an error and return the empty sequence; no
\* exception leaves process_uploaded_file or convert_pdf_to_images (the
\* PDF's error is the one convert_pdf_to_images reports), and no page
\* rendered before the failure is returned.
C4_UndecodableIsReportedAndEmpty ==
    /\ (Processed({"application/pdf"}) /\ PdfUndecodable(uploaded_file.content))
       => (/\ puf.exc = NoExc
           /\ puf.ret = <<>>
           /\ HasElem(puf.ui, "error", "Error converting PDF to images")
           /\ ~HasElem(puf.ui, "error", "Error processing file"))
    /\ (Processed(ImageTypes) /\ ImageUndecodable(uploaded_file.content))
       => (/\ puf.exc = NoExc
           /\ puf.ret = <<>>
           /\ HasElem(puf.ui, "error", "Error processing file"))

C4_Witness ==
    /\ Processed({"application/pdf"})
    /\ uploaded_file.content = PdfBytes(<<TRUE, FALSE>>)
    /\ puf.ret = <<>>
    /\ HasElem(puf.ui, "error", "Error converting PDF to images")

\* C5: a PDF that opens with zero pages is reported as an error, and
\* whenever process_uploaded_file returns the empty sequence it has
\* reported an error.
C5_EmptyResultIsReported ==
    (uploaded_file # NoFile /\ puf # NotCalled /\ puf.ret = <<>>)
    => \E i \in 1..Len(puf.ui) : puf.ui[i].fn = "error"

\* The last run was a button press whose model call raised.
CallRaised ==
    /\ clicked
    /\ ext # NotCalled
    /\ ext.exc # NoExc

\* C6: a run whose model call raises reports the error, has issued that one
\* request and no second one, shows no success and stores nothing: it
\* leaves session_state as the run found it (absent when it was absent).
\* The button is rendered again, and a press whose call returns stores
\* the text returned.
C6_FailedCallKeepsSessionState ==
    [][/\ CallRaised'
          => (/\ session_state' = session_state
              /\ Len(ext'.requests) = 1
              /\ HasElemArg(page', "error", "Error during extraction", ext'.exc)
              /\ ~HasElem(page', "success", "Questions extracted successfully!")
              /\ shown'
              /\ ~stopped')
       /\ (clicked' /\ ext' # NotCalled /\ ext'.exc = NoExc)
          => session_state' = [extracted_data |-> ext'.ret]]_vars

C6_Witness ==
    /\ CallRaised
    /\ ext.exc = "ResourceExhausted"
    /\ "extracted_data" \in DOMAIN session_state
    /\ shown

\* C7: a call of extract_questions_from_images with N images issues exactly
\* one request; its one content, of role user, has N+1 parts: the N images
\* PNG-encoded in the order given, then the instruction text; its
\* configuration carries the QuestionPaperBase schema and the system
\* prompt, whichever the model.
C7_OneRequestWithAllImagesInOrder ==
    ext # NotCalled =>
        /\ Len(ext.requests) = 1
        /\ LET request == ext.requests[1]
               images  == puf.ret
               N       == Len(images)
           IN  /\ Len(request.contents) = 1
               /\ request.contents[1].role = "user"
               /\ LET parts == request.contents[1].parts
                  IN  /\ Len(parts) = N + 1
                      /\ \A i \in 1..N :
                            /\ parts[i].kind = "bytes"
                            /\ parts[i].mime_type = "image/png"
                            /\ parts[i].data = [format |-> "PNG", image |-> images[i]]
                      /\ parts[N + 1].kind = "text"
                      /\ parts[N + 1].data = InstructionText
               /\ request.model = model_name
               /\ request.config.response_schema = "QuestionPaperBase"
               /\ request.config.system_instruction = <<get_system_prompt>>

C7_Witness ==
    /\ ext # NotCalled
    /\ Len(puf.ret) = 2
    /\ Len(ext.requests[1].contents[1].parts) = 3
    /\ model_name = Gemini25Flash

\* C8: the request to gemini-2.5-flash carries no thinking_config, the
\* request to gemini-3-flash-preview carries one whose level is the level
\* selected; and no run reads thinking_level unbound (a button press with
\* the client at hand always reaches the model call).
C8_ThinkingConfigOnlyWhereSupported ==
    /\ model_name \in ModelNames
    /\ ext # NotCalled =>
          LET config == ext.requests[1].config
          IN  /\ model_name = Gemini25Flash => "thinking_config" \notin DOMAIN config
              /\ model_name = Gemini3Flash =>
                    /\ "thinking_config" \in DOMAIN config
                    /\ config.thinking_config.thinking_level = thinking_widget
                    /\ thinking_widget \in Levels
    /\ ~HasElemArg(page, "error", "Error during extraction", "NameError")
    /\ (clicked /\ ~stopped) => ext # NotCalled

C8_Witness ==
    /\ ext # NotCalled
    /\ model_name = Gemini25Flash
    /\ thinking_widget = "medium"
    /\ "thinking_config" \notin DOMAIN ext.requests[1].config

\* C9: for a PDF of N >= 1 pages that all render, process_uploaded_file
\* returns N images, the i-th the rendering of page i, and they are the
\* sequence convert_pdf_to_images returns.
C9_PdfPagesInOrder ==
    (/\ Processed({"application/pdf"})
     /\ ~PdfUndecodable(uploaded_file.content)
     /\ Len(uploaded_file.content.pages) >= 1)
    => (/\ Len(puf.ret) = Len(uploaded_file.content.pages)
        /\ \A i \in 1..Len(puf.ret) :
              /\ puf.ret[i].src = "pdf"
              /\ puf.ret[i].page = i
              /\ puf.ret[i].mode = "RGB"
        /\ puf.ret = convert_pdf_to_images(uploaded_file.content, 200).ret)

C9_Witness ==
    /\ Processed({"application/pdf"})
    /\ uploaded_file.content = PdfBytes(<<TRUE, TRUE>>)
    /\ Len(puf.ret) = 2
    /\ puf.ret[2].page = 2

\* C10: a decodable upload declared image/png or image/jpeg yields exactly
\* one image, of mode RGB, whatever the mode of the input; an RGB input is
\* not converted.
C10_ImageIsOneRgbImage ==
    (/\ Processed({"image/png", "image/jpeg"})
     /\ ~ImageUndecodable(uploaded_file.content))
    => (/\ Len(puf.ret) = 1
        /\ puf.ret[1].src = "upload"
        /\ puf.ret[1].mode = "RGB"
        /\ puf.ret[1].converted = (uploaded_file.content.mode # "RGB"))

C10_Witness ==
    /\ Processed({"image/jpeg"})
    /\ uploaded_file.content = ImageBytes("RGBA", TRUE)
    /\ Len(puf.ret) = 1
    /\ puf.ret[1].mode = "RGB"

\* The last run's call of extract_questions_from_images returned a text.
CallReturned ==
    /\ clicked
    /\ ext # NotCalled
    /\ ext.exc = NoExc

\* C11: a session starts with no stored result; a run whose extraction
\* returns successfully leaves exactly its response text as the stored
\* result, whatever was stored before, and every other run leaves the
\* stored result as it was: after any sequence of runs the stored result is
\* the text of the most recent successful extraction, absent if there was
\* none.  Every run that is not stopped displays the stored result, and
\* only it.
C11_LastSuccessfulResultIsStored ==
    /\ session_state = EmptySessionState
    /\ [][/\ IF CallReturned'
             THEN session_state' = [extracted_data |-> ext'.ret]
             ELSE session_state' = session_state
          /\ (dqp' # NotCalled) <=> ("extracted_data" \in DOMAIN session_state')
          /\ dqp' # NotCalled
             => dqp' = Displayed(DisplayOfText[session_state'.extracted_data])]_vars

C11_Witness ==
    /\ CallReturned
    /\ ext.ret = T_NoQuestions
    /\ session_state = [extracted_data |-> T_NoQuestions]
    /\ dqp # NotCalled

\* The positions of the download buttons in ui.
DownloadButtons(ui) == {i \in 1..Len(ui) : ui[i].fn = "download_button"}

\* display_question_paper rendered the paper to the end: it returned and
\* did not pass through the parse-error handler.
RenderedToTheEnd ==
    /\ dqp.exc = NoExc
    /\ ~HasElem(dqp.ui, "error", "Error parsing response")

\* C12: a call of display_question_paper offers at most one download, none
\* in the parse-error outcome; a download it offers has the file name
\* extracted_questions.json and, as data, the very text the function was
\* given; a call that renders the paper to the end offers the download,
\* as its last element.
C12_DownloadCarriesTextGiven ==
    \A text \in Texts :
        Displaying(text)
        => (/\ Cardinality(DownloadButtons(dqp.ui)) <= 1
            /\ \A i \in DownloadButtons(dqp.ui) :
                   /\ dqp.ui[i].label = "extracted_questions.json"
                   /\ dqp.ui[i].arg = text
            /\ HasElem(dqp.ui, "error", "Error parsing response")
               => DownloadButtons(dqp.ui) = {}
            /\ RenderedToTheEnd => DownloadButtons(dqp.ui) = {Len(dqp.ui)})

C12_Witness ==
    /\ Displaying(T_TwoQ)
    /\ RenderedToTheEnd
    /\ HasElemArg(dqp.ui, "download_button", "extracted_questions.json", T_TwoQ)

\* The image parts of a request.
ImageParts(request) ==
    {i \in 1..Len(request.contents[1].parts) : request.contents[1].parts[i].kind = "bytes"}

\* C13: a run issues a request only when a file is uploaded and
\* process_uploaded_file, called in that run on that file, returned a
\* non-empty sequence of images without reporting an error; the request
\* carries one image part for each image returned, never zero.
C13_RequestOnlyWithImages ==
    (ext # NotCalled /\ ext.requests # <<>>)
    => (/\ clicked
        /\ uploaded_file # NoFile
        /\ puf = process_uploaded_file(uploaded_file)
        /\ puf.exc = NoExc
        /\ puf.ret # <<>>
        /\ ~\E i \in 1..Len(puf.ui) : puf.ui[i].fn = "error"
        /\ \A k \in 1..Len(ext.requests) :
               /\ ImageParts(ext.requests[k]) # {}
               /\ Cardinality(ImageParts(ext.requests[k])) = Len(puf.ret))

C13_Witness ==
    /\ ext # NotCalled
    /\ Len(ext.requests) = 1
    /\ Processed({"application/pdf"})
    /\ Len(puf.ret) = MaxPages
    /\ Cardinality(ImageParts(ext.requests[1])) = MaxPages

====
